---------------------------- MODULE Spec2Model ----------------------------
(***************************************************************************)
(* WATcher: the issue card view (CardViewComponent) and the layout header  *)
(* (HeaderComponent), with the services they call.  The browser runs each  *)
(* handler to completion on one thread, so every handler and every         *)
(* subscriber callback is one action; a request to a service is in flight  *)
(* between the action that issues it and the action that delivers its      *)
(* outcome.                                                                *)
(***************************************************************************)
EXTENDS Integers, Sequences, FiniteSets, Bags, TLC

(* ------------------------------ bounds -------------------------------- *)

\* Issue identifiers are 1..MaxId.
MaxId == 2

\* At most this many service requests are in flight at once.
MaxInFlight == 2

\* At most this many cool-down timers are outstanding at once.
MaxTimers == 2

\* At most this many retry offers of the error handler are open at once.
MaxOffers == 1

\* At most this many cards are drawn.
MaxCards == 2

(* --------------------------- program constants ------------------------ *)

\* The delay of the reload button's setTimeout, in seconds (3000 ms).
ReloadDelay == 3

(* ------------------------------ data ---------------------------------- *)

Ids == 1..MaxId

\* The phases of the application (Phase enum, as the header uses it).
Phases == {"issuesViewer", "activityDashboard"}

\* STATUS.Done and STATUS.Incomplete of the issue model.
STATUS == {"Incomplete", "Done"}

\* An Issue: its identifier and its status.
Issue == [id : Ids, status : STATUS]

NoIssue == [id |-> 0, status |-> "none"]

\* Local Store snapshots (IssueService.issues): identifier -> Issue.
Stores ==
    UNION {{f \in [S -> Issue] : \A k \in S : f[k].id = k} : S \in SUBSET Ids}

EmptyStore == [k \in {} |-> NoIssue]

\* What a full fetch may return: no issue, or every issue in one status.
Snapshots ==
    {EmptyStore} \cup {[k \in Ids |-> [id |-> k, status |-> st]] : st \in STATUS}

VARIABLES
    currentPhase,           \* PhaseService.currentPhase
    github,                 \* GithubService: stored repository and cache
    issues,                 \* IssueService.issues, the Local Store
    issuesPendingDeletion,  \* CardViewComponent.issuesPendingDeletion (its keys)
    requests,               \* bag of service requests in flight
    isReloadButtonDisabled, \* HeaderComponent.isReloadButtonDisabled
    timers,                 \* pending setTimeout callbacks: seconds left, oldest first
    offers,                 \* retry callbacks held by the error handler
    routerUrl,              \* the route the router was last sent to
    calls,                  \* what the last handler did: callbacks run and
                            \* collaborator calls made, in order
    cards                   \* the cards drawn so far: the issue's type and
                            \* state and the octicon the template got for it

vars == <<currentPhase, github, issues, issuesPendingDeletion, requests,
          isReloadButtonDisabled, timers, offers, routerUrl, calls, cards>>

(* ------------------------- collaborator calls -------------------------- *)

\* One entry of calls: a call to a collaborator, or a subscriber callback
\* that ran ("next:delete", "complete:delete"): the function, the issue it
\* is about (0 when none) and whether a retry callback was passed with it.
Call(fn, id, retry) == [fn |-> fn, id |-> id, retry |-> retry]

\* this.errorHandlingService.handleError(error) of a card view subscriber.
HandleError(op, id) == Call("handleError:" \o op, id, FALSE)

CountCalls(s, fn) == Cardinality({i \in 1..Len(s) : s[i].fn = fn})

IndexOf(s, fn) ==
    IF \E i \in 1..Len(s) : s[i].fn = fn
    THEN CHOOSE i \in 1..Len(s) : s[i].fn = fn /\ \A j \in 1..(i - 1) : s[j].fn # fn
    ELSE 0

(* ------------------------------ requests ------------------------------- *)

\* A request in flight.  kind: "delete" | "update" | "reload".
\*  id      the issue of a delete or update (0 for a reload)
\*  issue   the record an update sends
\*  marked  delete: id was a key of issuesPendingDeletion when the request
\*          was handed to the service
\*  origin  reload: "button" | "switch" (reload() reached through a phase
\*          switch) | "retry" (the retry callback; nobody subscribes to it)
\*  clean   reload: the gateway cache and the Local Store were both empty
\*          when reloadPage() was called
Req(kind, id, issue, marked, origin, clean) ==
    [kind |-> kind, id |-> id, issue |-> issue, marked |-> marked,
     origin |-> origin, clean |-> clean]

DeleteReq(id, marked) == Req("delete", id, NoIssue, marked, "none", FALSE)

UpdateReq(issue) == Req("update", issue.id, issue, FALSE, "none", FALSE)

ReloadReq(origin, clean) == Req("reload", 0, NoIssue, FALSE, origin, clean)

InFlight == BagToSet(requests)

NumInFlight == BagCardinality(requests)

Send(bag, r) == bag (+) SetToBag({r})

Resolve(bag, r) == bag (-) SetToBag({r})


(* ------------------ IssueService and the remote gateway ---------------- *)

\* issue.clone(phase): a new Issue object holding the fields of the
\* original; assigning to the clone leaves the original as it was.
Clone(issue, phase) ==
    [id |-> issue.id, status |-> issue.status]

\* IssueService.updateLocalStore(issue): upsert under the issue's identifier.
UpdateLocalStore(store, issue) ==
    [k \in DOMAIN store \cup {issue.id} |->
        IF k = issue.id THEN issue ELSE store[k]]

\* IssueService.deleteIssue removes the record from the Local Store when the
\* gateway confirms the delete; removing an absent identifier is a no-op.
DeleteFromLocalStore(store, id) ==
    [k \in DOMAIN store \ {id} |-> store[k]]

\* The canonical copies the gateway may return for an update of issue id.
UpdateResponses(id) == {i \in Issue : i.id = id}

(* --------------------------- CardViewComponent ------------------------- *)

\* A mark that drops the entries already there: { [id]: true }.
MarkPendingAlone(pending, id) == {id}

\* issuesPendingDeletion = { ...issuesPendingDeletion, [id]: true }
MarkPending(pending, id) == pending \cup {id}

\* const { [id]: issueRemoved, ...theRest } = issuesPendingDeletion;
\* issuesPendingDeletion = theRest
FinalizeDelete(pending, id) == pending \ {id}

\* The request a status update sends: the clone with the new status.
StatusRequest(issue, phase, status) ==
    [Clone(issue, phase) EXCEPT !.status = status]

\* A status update that writes its clone to the Local Store when it sends it.
MarkAsOptimistic(id, status) ==
    /\ id \in DOMAIN issues
    /\ NumInFlight < MaxInFlight
    /\ requests' = Send(requests, UpdateReq(StatusRequest(issues[id], currentPhase, status)))
    /\ issues' = UpdateLocalStore(issues, StatusRequest(issues[id], currentPhase, status))
    /\ calls' = <<Call("issueService.updateIssue", id, FALSE)>>
    /\ UNCHANGED <<cards, currentPhase, github, issuesPendingDeletion,
                   isReloadButtonDisabled, timers, offers, routerUrl>>

\* markAsResponded / markAsPending up to subscribe(): build the clone, set
\* its status, hand it to issueService.updateIssue.
MarkAs(id, status) ==
    /\ id \in DOMAIN issues
    /\ NumInFlight < MaxInFlight
    /\ requests' = Send(requests, UpdateReq(StatusRequest(issues[id], currentPhase, status)))
    /\ calls' = <<Call("issueService.updateIssue", id, FALSE)>>
    /\ UNCHANGED <<cards, currentPhase, github, issues, issuesPendingDeletion,
                   isReloadButtonDisabled, timers, offers, routerUrl>>

MarkAsResponded(id) == MarkAs(id, "Done")

MarkAsPending(id) == MarkAs(id, "Incomplete")

\* A success callback that stores the clone it sent, not the record returned.
UpdateSuccessStoresClone(r, updatedIssue) ==
    /\ r \in InFlight /\ r.kind = "update"
    /\ updatedIssue \in UpdateResponses(r.id)
    /\ requests' = Resolve(requests, r)
    /\ issues' = UpdateLocalStore(issues, r.issue)
    /\ calls' = <<Call("issueService.updateLocalStore", r.id, FALSE)>>
    /\ UNCHANGED <<cards, currentPhase, github, issuesPendingDeletion,
                   isReloadButtonDisabled, timers, offers, routerUrl>>

\* A success callback that updates a record only while the store has it.
UpdateSuccessIfPresent(r, updatedIssue) ==
    /\ r \in InFlight /\ r.kind = "update"
    /\ updatedIssue \in UpdateResponses(r.id)
    /\ requests' = Resolve(requests, r)
    /\ issues' = IF r.id \in DOMAIN issues
                 THEN UpdateLocalStore(issues, updatedIssue)
                 ELSE issues
    /\ calls' = <<Call("issueService.updateLocalStore", r.id, FALSE)>>
    /\ UNCHANGED <<cards, currentPhase, github, issuesPendingDeletion,
                   isReloadButtonDisabled, timers, offers, routerUrl>>

\* (updatedIssue) => this.issueService.updateLocalStore(updatedIssue)
UpdateSuccess(r, updatedIssue) ==
    /\ r \in InFlight /\ r.kind = "update"
    /\ updatedIssue \in UpdateResponses(r.id)
    /\ requests' = Resolve(requests, r)
    /\ issues' = UpdateLocalStore(issues, updatedIssue)
    /\ calls' = <<Call("issueService.updateLocalStore", r.id, FALSE)>>
    /\ UNCHANGED <<cards, currentPhase, github, issuesPendingDeletion,
                   isReloadButtonDisabled, timers, offers, routerUrl>>

\* (error) => this.errorHandlingService.handleError(error)
UpdateError(r) ==
    /\ r \in InFlight /\ r.kind = "update"
    /\ requests' = Resolve(requests, r)
    /\ calls' = <<HandleError("update", r.id)>>
    /\ UNCHANGED <<cards, currentPhase, github, issues, issuesPendingDeletion,
                   isReloadButtonDisabled, timers, offers, routerUrl>>

\* A deleteIssue that hands the delete to the service before it marks id.
DeleteIssueSendFirst(id) ==
    /\ NumInFlight < MaxInFlight
    /\ requests' = Send(requests, DeleteReq(id, id \in issuesPendingDeletion))
    /\ issuesPendingDeletion' = MarkPending(issuesPendingDeletion, id)
    /\ calls' = <<Call("issueService.deleteIssue", id, FALSE)>>
    /\ UNCHANGED <<cards, currentPhase, github, issues,
                   isReloadButtonDisabled, timers, offers, routerUrl>>

\* A deleteIssue that takes the record out of the Local Store at once.
DeleteIssueRemovesAtOnce(id) ==
    /\ NumInFlight < MaxInFlight
    /\ LET marked == MarkPending(issuesPendingDeletion, id) IN
          /\ issuesPendingDeletion' = marked
          /\ requests' = Send(requests, DeleteReq(id, id \in marked))
    /\ issues' = DeleteFromLocalStore(issues, id)
    /\ calls' = <<Call("issueService.deleteIssue", id, FALSE)>>
    /\ UNCHANGED <<cards, currentPhase, github,
                   isReloadButtonDisabled, timers, offers, routerUrl>>

\* deleteIssue(id, event) up to subscribe(): mark id pending, then hand the
\* delete to issueService.deleteIssue.
DeleteIssue(id) ==
    /\ NumInFlight < MaxInFlight
    /\ LET marked == MarkPending(issuesPendingDeletion, id) IN
          /\ issuesPendingDeletion' = marked
          /\ requests' = Send(requests, DeleteReq(id, id \in marked))
    /\ calls' = <<Call("issueService.deleteIssue", id, FALSE)>>
    /\ UNCHANGED <<cards, currentPhase, github, issues,
                   isReloadButtonDisabled, timers, offers, routerUrl>>

\* The delete succeeded: the service drops the record, the subscriber's
\* (removedIssue) => {} does nothing, finalize clears the pending entry.
DeleteSuccess(r) ==
    /\ r \in InFlight /\ r.kind = "delete"
    /\ requests' = Resolve(requests, r)
    /\ issues' = DeleteFromLocalStore(issues, r.id)
    /\ issuesPendingDeletion' = FinalizeDelete(issuesPendingDeletion, r.id)
    /\ calls' = <<Call("next:delete", r.id, FALSE)>>
    /\ UNCHANGED <<cards, currentPhase, github,
                   isReloadButtonDisabled, timers, offers, routerUrl>>

\* A delete whose pending entry is cleared in the success callback alone.
DeleteErrorKeepsPending(r) ==
    /\ r \in InFlight /\ r.kind = "delete"
    /\ requests' = Resolve(requests, r)
    /\ calls' = <<HandleError("delete", r.id)>>
    /\ UNCHANGED <<cards, currentPhase, github, issues, issuesPendingDeletion,
                   isReloadButtonDisabled, timers, offers, routerUrl>>

\* A delete whose error callback is empty.
DeleteErrorSwallowed(r) ==
    /\ r \in InFlight /\ r.kind = "delete"
    /\ requests' = Resolve(requests, r)
    /\ issuesPendingDeletion' = FinalizeDelete(issuesPendingDeletion, r.id)
    /\ calls' = <<>>
    /\ UNCHANGED <<cards, currentPhase, github, issues,
                   isReloadButtonDisabled, timers, offers, routerUrl>>

\* The delete failed: the subscriber passes the error to the error handler,
\* finalize clears the pending entry.
DeleteError(r) ==
    /\ r \in InFlight /\ r.kind = "delete"
    /\ requests' = Resolve(requests, r)
    /\ issuesPendingDeletion' = FinalizeDelete(issuesPendingDeletion, r.id)
    /\ calls' = <<HandleError("delete", r.id)>>
    /\ UNCHANGED <<cards, currentPhase, github, issues,
                   isReloadButtonDisabled, timers, offers, routerUrl>>

\* The delete observable completed without a value: finalize alone runs.
DeleteComplete(r) ==
    /\ r \in InFlight /\ r.kind = "delete"
    /\ requests' = Resolve(requests, r)
    /\ issuesPendingDeletion' = FinalizeDelete(issuesPendingDeletion, r.id)
    /\ calls' = <<Call("complete:delete", r.id, FALSE)>>
    /\ UNCHANGED <<cards, currentPhase, github, issues,
                   isReloadButtonDisabled, timers, offers, routerUrl>>

\* An open confirmation dialog for the delete of issue id: the pending
\* dialogRef.afterClosed() of openDeleteDialog.
DialogReq(id) == Req("dialog", id, NoIssue, FALSE, "none", FALSE)

\* What a confirmation dialog closes with: the yes button, the no button,
\* or nothing when it is dismissed.
DialogResults == {"true", "false", "undefined"}

\* if (res)
Truthy(res) == res \notin {"false", "undefined"}

\* openDeleteDialog(id, event) up to subscribe(): open the modal.
OpenDeleteDialog(id) ==
    /\ NumInFlight < MaxInFlight
    /\ requests' = Send(requests, DialogReq(id))
    /\ calls' = <<Call("dialogService.openUserConfirmationModal", id, FALSE)>>
    /\ UNCHANGED <<cards, currentPhase, github, issues, issuesPendingDeletion,
                   isReloadButtonDisabled, timers, offers, routerUrl>>

\* A dialog callback that deletes whatever the dialog closed with.
AfterClosedAlways(d, res) ==
    /\ d \in InFlight /\ d.kind = "dialog"
    /\ res \in DialogResults
    /\ LET marked == MarkPending(issuesPendingDeletion, d.id) IN
          /\ issuesPendingDeletion' = marked
          /\ requests' = Send(Resolve(requests, d), DeleteReq(d.id, d.id \in marked))
    /\ calls' = <<Call("afterClosed", d.id, FALSE),
                  Call("issueService.deleteIssue", d.id, FALSE)>>
    /\ UNCHANGED <<cards, currentPhase, github, issues,
                   isReloadButtonDisabled, timers, offers, routerUrl>>

\* The dialog closed with res: (res) => { if (res) { this.deleteIssue(id, event); } }
AfterClosed(d, res) ==
    /\ d \in InFlight /\ d.kind = "dialog"
    /\ res \in DialogResults
    /\ IF Truthy(res)
       THEN LET marked == MarkPending(issuesPendingDeletion, d.id) IN
               /\ issuesPendingDeletion' = marked
               /\ requests' = Send(Resolve(requests, d), DeleteReq(d.id, d.id \in marked))
               /\ calls' = <<Call("afterClosed", d.id, FALSE),
                             Call("issueService.deleteIssue", d.id, FALSE)>>
       ELSE /\ requests' = Resolve(requests, d)
            /\ calls' = <<Call("afterClosed", d.id, FALSE)>>
            /\ UNCHANGED issuesPendingDeletion
    /\ UNCHANGED <<cards, currentPhase, github, issues,
                   isReloadButtonDisabled, timers, offers, routerUrl>>

\* issue.githubIssue.issueOrPr: the two types the code names, another type
\* and a missing one.
IssueOrPr == {"Issue", "PullRequest", "Discussion", "undefined"}

\* issue.githubIssue.state: the two states the code names, another state
\* and a missing one.
States == {"OPEN", "CLOSED", "MERGED", "undefined"}

\* The icon names getOcticon returns.
Octicons == {"issue-opened", "issue-closed", "git-pull-request", "git-merge", "circle"}

\* getOcticon with the pull request case ahead of the open pull request case.
GetOcticonMergeFirst(type, state) ==
    IF type = "Issue" /\ state = "OPEN" THEN "issue-opened"
    ELSE IF type = "Issue" /\ state = "CLOSED" THEN "issue-closed"
    ELSE IF type = "PullRequest" THEN "git-merge"
    ELSE IF type = "PullRequest" /\ state = "OPEN" THEN "git-pull-request"
    ELSE "circle"

\* getOcticon(issue): switch (true) takes the first case that holds, in the
\* order the cases are written, and the default when none does.
GetOcticon(type, state) ==
    IF type = "Issue" /\ state = "OPEN" THEN "issue-opened"
    ELSE IF type = "Issue" /\ state = "CLOSED" THEN "issue-closed"
    ELSE IF type = "PullRequest" /\ state = "OPEN" THEN "git-pull-request"
    ELSE IF type = "PullRequest" THEN "git-merge"
    ELSE "circle"

\* The template draws the card of an issue and asks getOcticon for its icon.
RenderCard(type, state) ==
    /\ Len(cards) < MaxCards
    /\ cards' = Append(cards, [type |-> type, state |-> state,
                               octicon |-> GetOcticon(type, state)])
    /\ UNCHANGED <<currentPhase, github, issues, issuesPendingDeletion, requests,
                   isReloadButtonDisabled, timers, offers, routerUrl, calls>>

(* ---------------------------- HeaderComponent -------------------------- *)

\* A handler of the header runs its statements in order on the state it was
\* entered with.  Ctx is that state as the statements pass it along; each
\* statement appends the collaborator call it makes.
Ctx ==
    [github |-> github, issues |-> issues, requests |-> requests,
     disabled |-> isReloadButtonDisabled, timers |-> timers,
     url |-> routerUrl, calls |-> <<>>]

Called(c, fn, retry) == [c EXCEPT !.calls = Append(@, Call(fn, 0, retry))]

\* The state a handler leaves behind.
Leave(c) ==
    /\ github' = c.github
    /\ issues' = c.issues
    /\ requests' = c.requests
    /\ isReloadButtonDisabled' = c.disabled
    /\ timers' = c.timers
    /\ routerUrl' = c.url
    /\ calls' = c.calls

\* githubService.storePhaseDetails(owner, name) of the phase's repository.
StorePhaseDetails(c, phase) ==
    Called([c EXCEPT !.github.repo = phase], "githubService.storePhaseDetails", FALSE)

\* githubService.reset(): drops what the gateway has cached for its scope.
GithubReset(c) ==
    Called([c EXCEPT !.github.cached = FALSE], "githubService.reset", FALSE)

\* issueService.reset(false): clears the Local Store.
IssueReset(c) ==
    Called([c EXCEPT !.issues = EmptyStore], "issueService.reset", FALSE)

\* Whether the gateway cache and the Local Store are both reset.
Clean(c) == ~c.github.cached /\ c.issues = EmptyStore

\* this.githubEventService.reloadPage(): the gateway's full refresh.
ReloadPage(c, origin) ==
    Called([c EXCEPT !.requests = Send(@, ReloadReq(origin, Clean(c)))],
           "githubEventService.reloadPage", FALSE)

\* setTimeout(() => { this.isReloadButtonDisabled = false; }, 3000)
SetTimeout(c) ==
    Called([c EXCEPT !.timers = Append(@, ReloadDelay)], "setTimeout", FALSE)

\* reload(): disable the button, subscribe to reloadPage(), start the timer.
Reload(c, origin) ==
    SetTimeout(ReloadPage([c EXCEPT !.disabled = TRUE], origin))

\* this.router.navigateByUrl(this.phaseService.currentPhase)
NavigateByUrl(c, url) ==
    Called([c EXCEPT !.url = url], "router.navigateByUrl", FALSE)

\* Room for one more refresh and one more timer.
CanReload == NumInFlight < MaxInFlight /\ Len(timers) < MaxTimers

\* The header template binds the reload button to isReloadButtonDisabled.
ReloadButtonEnabled == ~isReloadButtonDisabled

\* A click on the reload button: it reaches reload() only while the button
\* is enabled.
ClickReload ==
    /\ ReloadButtonEnabled
    /\ CanReload
    /\ Leave(Reload(Ctx, "button"))
    /\ UNCHANGED <<cards, currentPhase, issuesPendingDeletion, offers>>

\* A routeToSelectedPhase that reloads before it resets the two services.
RouteReloadFirst(openPhase) ==
    IF currentPhase = openPhase
    THEN /\ calls' = <<>>
         /\ UNCHANGED <<cards, currentPhase, github, issues, issuesPendingDeletion,
                        requests, isReloadButtonDisabled, timers, offers, routerUrl>>
    ELSE /\ CanReload
         /\ currentPhase' = openPhase
         /\ Leave(NavigateByUrl(
                    IssueReset(GithubReset(
                        Reload(StorePhaseDetails(Ctx, openPhase), "switch"))),
                    openPhase))
         /\ UNCHANGED <<issuesPendingDeletion, offers, cards>>

\* A routeToSelectedPhase without the early return for the current phase.
RouteAlways(openPhase) ==
    /\ CanReload
    /\ currentPhase' = openPhase
    /\ Leave(NavigateByUrl(
               Reload(IssueReset(GithubReset(StorePhaseDetails(Ctx, openPhase))),
                      "switch"),
               openPhase))
    /\ UNCHANGED <<issuesPendingDeletion, offers, cards>>

\* routeToSelectedPhase(openPhase)
RouteToSelectedPhase(openPhase) ==
    IF currentPhase = openPhase
    THEN /\ calls' = <<>>
         /\ UNCHANGED <<cards, currentPhase, github, issues, issuesPendingDeletion,
                        requests, isReloadButtonDisabled, timers, offers, routerUrl>>
    ELSE /\ CanReload
         /\ currentPhase' = openPhase
         /\ Leave(NavigateByUrl(
                    Reload(IssueReset(GithubReset(StorePhaseDetails(Ctx, openPhase))),
                           "switch"),
                    openPhase))
         /\ UNCHANGED <<issuesPendingDeletion, offers, cards>>

\* A timer callback that leaves the button as it is.
TimerFireKeepsDisabled ==
    /\ timers # <<>>
    /\ Head(timers) = 0
    /\ timers' = Tail(timers)
    /\ calls' = <<>>
    /\ UNCHANGED <<cards, currentPhase, github, issues, issuesPendingDeletion,
                   requests, isReloadButtonDisabled, offers, routerUrl>>

\* The timer callback: this.isReloadButtonDisabled = false.  Timers of one
\* delay fire in the order they were set.
TimerFire ==
    /\ timers # <<>>
    /\ Head(timers) = 0
    /\ timers' = Tail(timers)
    /\ isReloadButtonDisabled' = FALSE
    /\ calls' = <<>>
    /\ UNCHANGED <<cards, currentPhase, github, issues, issuesPendingDeletion,
                   requests, offers, routerUrl>>

\* One second passes.  A timer that is due may still be waiting to run.
Tick ==
    /\ \E i \in 1..Len(timers) : timers[i] > 0
    /\ timers' = [i \in 1..Len(timers) |-> IF timers[i] > 0 THEN timers[i] - 1 ELSE 0]
    /\ UNCHANGED <<cards, currentPhase, github, issues, issuesPendingDeletion,
                   requests, isReloadButtonDisabled, offers, routerUrl, calls>>

\* The refresh a reload() subscribed to succeeded: (success) => success.
\* The refresh itself has replaced the Local Store by the fetched snapshot
\* and refilled the gateway cache.
ReloadSuccess(r, snapshot) ==
    /\ r \in InFlight /\ r.kind = "reload" /\ r.origin # "retry"
    /\ snapshot \in Snapshots
    /\ requests' = Resolve(requests, r)
    /\ issues' = snapshot
    /\ github' = [github EXCEPT !.cached = TRUE]
    /\ calls' = <<Call("next:reload", 0, FALSE)>>
    /\ UNCHANGED <<cards, currentPhase, issuesPendingDeletion,
                   isReloadButtonDisabled, timers, offers, routerUrl>>

\* An error callback that re-enables the button when the response arrives.
ReloadErrorEnables(r) ==
    /\ r \in InFlight /\ r.kind = "reload" /\ r.origin # "retry"
    /\ offers < MaxOffers
    /\ requests' = Resolve(requests, r)
    /\ offers' = offers + 1
    /\ isReloadButtonDisabled' = FALSE
    /\ calls' = <<Call("handleError:reload", 0, TRUE)>>
    /\ UNCHANGED <<cards, currentPhase, github, issues, issuesPendingDeletion,
                   timers, routerUrl>>

\* An error callback that passes the error on without a retry callback.
ReloadErrorNoRetry(r) ==
    /\ r \in InFlight /\ r.kind = "reload" /\ r.origin # "retry"
    /\ requests' = Resolve(requests, r)
    /\ calls' = <<Call("handleError:reload", 0, FALSE)>>
    /\ UNCHANGED <<cards, currentPhase, github, issues, issuesPendingDeletion,
                   isReloadButtonDisabled, timers, offers, routerUrl>>

\* The refresh failed:
\* (error) => handleError(error, () => this.githubEventService.reloadPage())
ReloadError(r) ==
    /\ r \in InFlight /\ r.kind = "reload" /\ r.origin # "retry"
    /\ offers < MaxOffers
    /\ requests' = Resolve(requests, r)
    /\ offers' = offers + 1
    /\ calls' = <<Call("handleError:reload", 0, TRUE)>>
    /\ UNCHANGED <<cards, currentPhase, github, issues, issuesPendingDeletion,
                   isReloadButtonDisabled, timers, routerUrl>>

\* The error handler runs the retry callback it was given:
\* () => this.githubEventService.reloadPage().  The callback subscribes to
\* nothing and touches neither the button nor a timer.
InvokeRetry ==
    /\ offers > 0
    /\ NumInFlight < MaxInFlight
    /\ offers' = offers - 1
    /\ Leave(ReloadPage(Ctx, "retry"))
    /\ UNCHANGED <<cards, currentPhase, issuesPendingDeletion>>

\* The error notification goes away without the retry being taken.
DismissOffer ==
    /\ offers > 0
    /\ offers' = offers - 1
    /\ calls' = <<>>
    /\ UNCHANGED <<cards, currentPhase, github, issues, issuesPendingDeletion,
                   requests, isReloadButtonDisabled, timers, routerUrl>>

\* The refresh of a retry succeeded; no subscriber is told.
RetrySuccess(r, snapshot) ==
    /\ r \in InFlight /\ r.kind = "reload" /\ r.origin = "retry"
    /\ snapshot \in Snapshots
    /\ requests' = Resolve(requests, r)
    /\ issues' = snapshot
    /\ github' = [github EXCEPT !.cached = TRUE]
    /\ calls' = <<>>
    /\ UNCHANGED <<cards, currentPhase, issuesPendingDeletion,
                   isReloadButtonDisabled, timers, offers, routerUrl>>

\* The refresh of a retry failed; no subscriber is told.
RetryError(r) ==
    /\ r \in InFlight /\ r.kind = "reload" /\ r.origin = "retry"
    /\ requests' = Resolve(requests, r)
    /\ calls' = <<>>
    /\ UNCHANGED <<cards, currentPhase, github, issues, issuesPendingDeletion,
                   isReloadButtonDisabled, timers, offers, routerUrl>>

(* --------------------------- specifications --------------------------- *)

Init ==
    /\ currentPhase \in Phases
    /\ github = [repo |-> currentPhase, cached |-> TRUE]
    /\ issues \in Snapshots
    /\ issuesPendingDeletion = {}
    /\ requests = EmptyBag
    /\ isReloadButtonDisabled = FALSE
    /\ timers = <<>>
    /\ offers = 0
    /\ routerUrl = currentPhase
    /\ calls = <<>>
    /\ cards = <<>>

CardNext ==
    \/ \E id \in Ids : MarkAsResponded(id)
    \/ \E id \in Ids : MarkAsPending(id)
    \/ \E r \in InFlight : \E i \in Issue : UpdateSuccess(r, i)
    \/ \E r \in InFlight : UpdateError(r)
    \/ \E id \in Ids : DeleteIssue(id)
    \/ \E r \in InFlight : DeleteSuccess(r)
    \/ \E r \in InFlight : DeleteError(r)
    \/ \E r \in InFlight : DeleteComplete(r)

HeaderNext ==
    \/ ClickReload
    \/ \E p \in Phases : RouteToSelectedPhase(p)
    \/ TimerFire
    \/ Tick
    \/ \E r \in InFlight : \E s \in Snapshots : ReloadSuccess(r, s)
    \/ \E r \in InFlight : ReloadError(r)
    \/ InvokeRetry
    \/ DismissOffer
    \/ \E r \in InFlight : \E s \in Snapshots : RetrySuccess(r, s)
    \/ \E r \in InFlight : RetryError(r)

Next == CardNext \/ HeaderNext

\* The card view alone.
CardSpec == Init /\ [][CardNext]_vars

\* The header alone.
HeaderSpec == Init /\ [][HeaderNext]_vars

\* The header, with time passing and due timers run by the event loop.
HeaderLive == HeaderSpec /\ WF_vars(Tick) /\ WF_vars(TimerFire)

Spec == Init /\ [][Next]_vars

\* Deletes of the card view together with phase switches of the header.
SwitchNext ==
    \/ \E id \in Ids : DeleteIssue(id)
    \/ \E r \in InFlight : DeleteSuccess(r)
    \/ \E r \in InFlight : DeleteError(r)
    \/ \E r \in InFlight : DeleteComplete(r)
    \/ \E p \in Phases : RouteToSelectedPhase(p)
    \/ \E r \in InFlight : \E s \in Snapshots : ReloadSuccess(r, s)
    \/ TimerFire
    \/ Tick

SwitchSpec == Init /\ [][SwitchNext]_vars

\* Deletes as the card view starts them: through the confirmation dialog.
DialogNext ==
    \/ \E id \in Ids : OpenDeleteDialog(id)
    \/ \E d \in InFlight : \E res \in DialogResults : AfterClosed(d, res)
    \/ \E r \in InFlight : DeleteSuccess(r)
    \/ \E r \in InFlight : DeleteError(r)
    \/ \E r \in InFlight : DeleteComplete(r)

DialogSpec == Init /\ [][DialogNext]_vars

\* The icons of the cards, for every type and state an issue may carry.
OcticonNext == \E type \in IssueOrPr : \E state \in States : RenderCard(type, state)

OcticonSpec == Init /\ [][OcticonNext]_vars

(* ------------------------------- claims -------------------------------- *)

\* Delete requests for id in a bag of requests.
DeletesOf(bag, id) == {q \in BagToSet(bag) : q.kind = "delete" /\ q.id = id}

\* Update requests in flight.
Updates == {q \in InFlight : q.kind = "update"}

\* The step delivers the outcome of request r.
Resolves(r) == r \in InFlight /\ requests' = Resolve(requests, r)

\* C1: whichever way a delete request for id ends (value, error, completion
\* without a value), id is not a key of issuesPendingDeletion after the step
\* that delivers the outcome, when no other delete for id is still in flight.
C1_PendingClearedOnResolution ==
    [][\A r \in InFlight :
          (/\ r.kind = "delete"
           /\ Resolves(r)
           /\ DeletesOf(requests', r.id) = {})
          => r.id \notin issuesPendingDeletion']_vars

\* C1 witness: the delete of issue 1 completed without a value, nothing else
\* is in flight, and 1 is not pending.
C1_Witness ==
    /\ calls = <<Call("complete:delete", 1, FALSE)>>
    /\ requests = EmptyBag
    /\ 1 \notin issuesPendingDeletion

\* C2: every delete request in flight was handed to the service with its id
\* already a key of issuesPendingDeletion, and the step that sends a delete
\* for id ends with id pending.
C2_MarkedBeforeSend ==
    /\ \A r \in InFlight : r.kind = "delete" => r.marked
    /\ \A i \in 1..Len(calls) :
          calls[i].fn = "issueService.deleteIssue"
              => calls[i].id \in issuesPendingDeletion

\* C2 witness: a delete for issue 1 has just been sent and is unresolved.
C2_Witness ==
    /\ calls = <<Call("issueService.deleteIssue", 1, FALSE)>>
    /\ DeletesOf(requests, 1) # {}
    /\ 1 \in issuesPendingDeletion

\* C3: the step that delivers the failure of a delete for id leaves the Local
\* Store as it was (a record id that was there is still there), ends with id
\* not pending, and passes the error to the error handler exactly once.
C3_DeleteFailure ==
    [][\A r \in InFlight :
          DeleteError(r)
          => /\ issues' = issues
             /\ r.id \notin issuesPendingDeletion'
             /\ CountCalls(calls', "handleError:delete") = 1
             /\ \A i \in 1..Len(calls') :
                   calls'[i].fn = "handleError:delete" => calls'[i].id = r.id]_vars

\* C3 witness: the delete of issue 1 has failed; record 1 is in the store,
\* 1 is not pending and the handler has the error.
C3_Witness ==
    /\ calls = <<HandleError("delete", 1)>>
    /\ 1 \in DOMAIN issues
    /\ 1 \notin issuesPendingDeletion

\* C4: markAsResponded and markAsPending write nothing to the Local Store
\* when they send the request, and the step that delivers the failure of a
\* status update writes nothing either and passes the error to the handler.
C4_UpdateFailure ==
    [][/\ \A id \in Ids :
             (MarkAsResponded(id) \/ MarkAsPending(id)) => issues' = issues
       /\ \A r \in Updates :
             UpdateError(r)
             => /\ issues' = issues
                /\ calls' = <<HandleError("update", r.id)>>]_vars

\* C4 witness: an update of issue 1 has failed and the store still holds
\* record 1 as Incomplete.
C4_Witness ==
    /\ calls = <<HandleError("update", 1)>>
    /\ 1 \in DOMAIN issues
    /\ issues[1].status = "Incomplete"

\* The step sends one update request, for issue id, carrying status.
SendsUpdate(id, status) ==
    \E q \in BagToSet(requests') :
        /\ requests' = Send(requests, q)
        /\ q.kind = "update" /\ q.id = id /\ q.issue.id = id
        /\ q.issue.status = status

\* C5: a successful status update stores the record the gateway returned
\* under the identifier of the request and leaves every other record alone;
\* markAsResponded sends status Done and markAsPending sends Incomplete, and
\* neither changes the record it was given.
C5_UpdateSuccess ==
    [][/\ \A r \in Updates : \A u \in Issue :
             UpdateSuccess(r, u)
             => /\ u.id = r.id
                /\ r.id \in DOMAIN issues' /\ issues'[r.id] = u
                /\ \A k \in DOMAIN issues \ {r.id} :
                      k \in DOMAIN issues' /\ issues'[k] = issues[k]
       /\ \A id \in Ids :
             MarkAsResponded(id) => SendsUpdate(id, "Done") /\ issues' = issues
       /\ \A id \in Ids :
             MarkAsPending(id) => SendsUpdate(id, "Incomplete") /\ issues' = issues]_vars

\* C5 witness: the gateway's record for issue 1 has just been stored with
\* status Done while record 2 is Incomplete.
C5_Witness ==
    /\ calls = <<Call("issueService.updateLocalStore", 1, FALSE)>>
    /\ 1 \in DOMAIN issues /\ issues[1].status = "Done"
    /\ 2 \in DOMAIN issues /\ issues[2].status = "Incomplete"

\* Refreshes in flight that a reload() subscribed to.
ReloadsOf(bag) ==
    {q \in BagToSet(bag) : q.kind = "reload" /\ q.origin # "retry"}

\* Refreshes in flight that a retry callback started.
RetriesOf(bag) ==
    {q \in BagToSet(bag) : q.kind = "reload" /\ q.origin = "retry"}

\* How many requests of the set S a bag holds.
CountIn(bag, S) == BagCardinality([q \in DOMAIN bag \cap S |-> bag[q]])

\* C6: at most one refresh started by reload() is in flight at any time,
\* whether reload() was reached from the button or through a phase switch.
C6_OneRefreshInFlight == CountIn(requests, ReloadsOf(requests)) <= 1

\* C7: whenever the reload button is disabled it is enabled again later,
\* whatever the refresh does (succeeds, fails or never answers).
C7_EventuallyEnabled == isReloadButtonDisabled ~> ~isReloadButtonDisabled

\* C7 witness: the refresh has failed, its timer has run, and the button is
\* enabled again.
C7_Witness ==
    /\ ~isReloadButtonDisabled
    /\ timers = <<>>
    /\ offers > 0
    /\ requests = EmptyBag

\* C8 as claimed: the button is disabled for as long as a refresh started by
\* reload() is in flight.
C8_DisabledWhileInFlight ==
    ReloadsOf(requests) # {} => isReloadButtonDisabled

\* C8 amended: the button goes from disabled to enabled only in the step in
\* which the oldest timer, being due, runs; and the step that delivers the
\* outcome of a refresh changes neither the button nor the timers.
C8_EnabledByTimerAlone ==
    [][/\ (isReloadButtonDisabled /\ ~isReloadButtonDisabled')
             => /\ timers # <<>>
                /\ Head(timers) = 0
                /\ timers' = Tail(timers)
       /\ \A r \in ReloadsOf(requests) :
             Resolves(r)
             => /\ isReloadButtonDisabled' = isReloadButtonDisabled
                /\ timers' = timers]_vars

\* C8 witness: the timer of a button reload has run and the button is
\* enabled while the refresh of that reload is still in flight.
C8_Witness ==
    /\ ~isReloadButtonDisabled
    /\ timers = <<>>
    /\ \E r \in ReloadsOf(requests) : r.origin = "button"

\* Retries the header may still cause: open offers and retries in flight.
RetryPotential(off, bag) == off + CountIn(bag, RetriesOf(bag))

\* C9: the failure of a refresh that reload() subscribed to is passed to the
\* error handler once, with a retry callback; running the callback calls
\* reloadPage() once and nothing else; and retries arise from nothing but
\* such a failure, one per failure, so the failure of a retry causes none.
C9_FailureOffersOneRetry ==
    [][/\ \A r \in ReloadsOf(requests) :
             ReloadError(r)
             => /\ calls' = <<Call("handleError:reload", 0, TRUE)>>
                /\ offers' = offers + 1
       /\ InvokeRetry
             => /\ \E q \in RetriesOf(requests') : requests' = Send(requests, q)
                /\ CountCalls(calls', "githubEventService.reloadPage") = 1
                /\ Len(calls') = 1
                /\ timers' = timers
                /\ isReloadButtonDisabled' = isReloadButtonDisabled
       /\ RetryPotential(offers', requests') > RetryPotential(offers, requests)
             => /\ RetryPotential(offers', requests') = RetryPotential(offers, requests) + 1
                /\ \E r \in ReloadsOf(requests) : Resolves(r)
                /\ CountCalls(calls', "handleError:reload") = 1]_vars

\* C9 witness: a retry has just been started by the callback of a failed
\* refresh and no further retry is on offer.
C9_Witness ==
    /\ calls = <<Call("githubEventService.reloadPage", 0, FALSE)>>
    /\ RetriesOf(requests) # {}
    /\ offers = 0

\* Position of the first call of fn among the last handler's calls, 0 if none.
At(fn) == IndexOf(calls, fn)

\* C10: a handler that resets the gateway also resets the issue side, then
\* starts the reload, in that order and in the same step: the state after it
\* has the gateway cache dropped and the Local Store empty, and every refresh
\* started through a phase switch was started with both already reset.
C10_SwitchOrder ==
    /\ At("githubService.reset") > 0 <=> At("issueService.reset") > 0
    /\ At("githubService.reset") > 0
          => /\ At("githubService.reset") < At("issueService.reset")
             /\ At("issueService.reset") < At("githubEventService.reloadPage")
             /\ CountCalls(calls, "githubEventService.reloadPage") = 1
             /\ ~github.cached
             /\ issues = EmptyStore
             /\ \E r \in ReloadsOf(requests) : r.origin = "switch"
    /\ \A r \in ReloadsOf(requests) : r.origin = "switch" => r.clean

\* C10 witness: a phase switch has just run while the store held issues; its
\* refresh is in flight and saw both resets.
C10_Witness ==
    /\ At("githubService.reset") > 0
    /\ issues = EmptyStore
    /\ \E r \in ReloadsOf(requests) : r.origin = "switch" /\ r.clean
    /\ \E r \in ReloadsOf(requests) : r.origin = "button" /\ ~r.clean

\* C11: in the state a phase switch leaves behind (the handler that called
\* issueService.reset has just run) issuesPendingDeletion is empty.
C11_SwitchClearsPending ==
    At("issueService.reset") > 0 => issuesPendingDeletion = {}

\* Whether b is pending before and after the step alike.
KeepsEntry(b) ==
    (b \in issuesPendingDeletion') <=> (b \in issuesPendingDeletion)

\* C12: the step that issues a delete for one identifier, and the step that
\* delivers the outcome of a delete for one identifier, leave the pending
\* entry of every other identifier as it was.
C12_DeletesDoNotInterfere ==
    [][/\ \A a \in Ids :
             DeleteIssue(a) => \A b \in Ids \ {a} : KeepsEntry(b)
       /\ \A r \in InFlight :
             (r.kind = "delete" /\ Resolves(r))
             => \A b \in Ids \ {r.id} : KeepsEntry(b)]_vars

\* C12 witness: the delete of issue 1 has just succeeded while a delete of
\* issue 2 is in flight, and 2 is still pending.
C12_Witness ==
    /\ calls = <<Call("next:delete", 1, FALSE)>>
    /\ DeletesOf(requests, 2) # {}
    /\ 2 \in issuesPendingDeletion
    /\ 1 \notin issuesPendingDeletion

\* Confirmation dialogs that are open.
Dialogs == {q \in InFlight : q.kind = "dialog"}

\* The step puts one more delete request for id in flight.
SendsDelete(id) ==
    CountIn(requests', DeletesOf(requests', id)) > CountIn(requests, DeletesOf(requests, id))

\* C13: when the confirmation dialog for id closes with a result that is not
\* positive (no, or dismissed), the step only closes the dialog: no request
\* is sent and the pending set and the Local Store are as before; and a step
\* sends a delete for id only as the positive close of a dialog for id.
C13_NegativeResultDeletesNothing ==
    [][/\ \A d \in Dialogs : \A res \in DialogResults \ {"true"} :
             AfterClosed(d, res)
             => /\ requests' = Resolve(requests, d)
                /\ issuesPendingDeletion' = issuesPendingDeletion
                /\ issues' = issues
       /\ \A id \in Ids :
             SendsDelete(id)
             => \E d \in Dialogs : d.id = id /\ AfterClosed(d, "true")]_vars

\* C13 witness: the dialog for issue 1 has closed without a delete: nothing
\* is in flight, nothing is pending and record 1 is in the store.
C13_Witness ==
    /\ calls = <<Call("afterClosed", 1, FALSE)>>
    /\ requests = EmptyBag
    /\ issuesPendingDeletion = {}
    /\ 1 \in DOMAIN issues

C15_LastResponseWins ==
    [][/\ \A r \in Updates : \A u \in Issue :
             (UpdateSuccess(r, u) /\ r.id \notin DOMAIN issues)
             => (r.id \in DOMAIN issues' /\ issues'[r.id] = u)
       /\ \A r \in InFlight :
             (DeleteSuccess(r) /\ \E q \in Updates : q.id = r.id)
             => r.id \notin DOMAIN issues'
       /\ \A r \in InFlight :
             (DeleteSuccess(r) /\ calls = <<Call("issueService.updateLocalStore", r.id, FALSE)>>)
             => r.id \notin DOMAIN issues']_vars

\* C15 witness: the delete of issue 1 has succeeded and removed the record
\* while an update of issue 1 is still in flight.
C15_Witness ==
    /\ calls = <<Call("next:delete", 1, FALSE)>>
    /\ 1 \notin DOMAIN issues
    /\ \E q \in Updates : q.id = 1

\* C16: an identifier is pending exactly when a delete request for it is in
\* flight.
C16_PendingIffInFlight ==
    \A id \in Ids : id \in issuesPendingDeletion <=> DeletesOf(requests, id) # {}

\* C17: routeToSelectedPhase called with the current phase leaves the phase,
\* the gateway, the Local Store, the pending set, the requests in flight, the
\* reload button, the timers and the route as they were, and calls nothing.
C17_SamePhaseIsNoOp ==
    [][RouteToSelectedPhase(currentPhase)
          => /\ UNCHANGED <<cards, currentPhase, github, issues, issuesPendingDeletion,
                            requests, isReloadButtonDisabled, timers, offers,
                            routerUrl>>
             /\ calls' = <<>>]_vars

\* C17 witness: a call for the current phase has just returned (the last
\* handler called nothing) right after a reload(): the button is disabled,
\* the newest timer has its whole delay left, and the requests in flight and
\* the open retry offers are as many as the bounds allow.  No other handler
\* that calls nothing leaves this behind: a timer callback enables the
\* button, a dropped offer or the outcome of a retry leaves room.
C17_Witness ==
    /\ calls = <<>>
    /\ isReloadButtonDisabled
    /\ timers # <<>> /\ timers[Len(timers)] = ReloadDelay
    /\ NumInFlight = MaxInFlight
    /\ offers = MaxOffers

\* C18: the reload button is disabled for as long as the timer of the most
\* recent reload() has time left.
C18_DisabledForLatestDelay ==
    (timers # <<>> /\ timers[Len(timers)] > 0) => isReloadButtonDisabled


\* C19: getOcticon gives 'issue-opened' for Issue and OPEN, 'issue-closed'
\* for Issue and CLOSED, 'git-pull-request' for PullRequest and OPEN,
\* 'git-merge' for PullRequest in any other state, and 'circle' for every
\* other type and for an Issue in any other state; it gives one of these
\* five names for every type and state.
C19_OcticonTable ==
    \A i \in 1..Len(cards) :
        LET type == cards[i].type
            state == cards[i].state
            octicon == cards[i].octicon
        IN  /\ (type = "Issue" /\ state = "OPEN") => octicon = "issue-opened"
            /\ (type = "Issue" /\ state = "CLOSED") => octicon = "issue-closed"
            /\ (type = "PullRequest" /\ state = "OPEN") => octicon = "git-pull-request"
            /\ (type = "PullRequest" /\ state # "OPEN") => octicon = "git-merge"
            /\ (type \notin {"Issue", "PullRequest"}) => octicon = "circle"
            /\ (type = "Issue" /\ state \notin {"OPEN", "CLOSED"}) => octicon = "circle"
            /\ octicon \in Octicons

\* C19 witness: an open pull request and an issue in a state that is neither
\* OPEN nor CLOSED have been drawn.
C19_Witness ==
    /\ Len(cards) = 2
    /\ cards[1] = [type |-> "PullRequest", state |-> "OPEN", octicon |-> "git-pull-request"]
    /\ cards[2] = [type |-> "Issue", state |-> "MERGED", octicon |-> "circle"]

=============================================================================
